---------------------------- MODULE Spec2Model ----------------------------
(***************************************************************************)
(* Block segmentation and structural classification pipeline of            *)
(* src/final.py: run merger and block merger (parse_pdf), noise filter     *)
(* (remove_headers_footers, block_in_tables), title selector               *)
(* (extract_title) and heading classifier (extract_headings), driven by    *)
(* main().                                                                 *)
(*                                                                         *)
(* Conventions.  A Python str is a sequence of one-character strings, so   *)
(* that strip, endswith, lower and the substring test are computed.  A     *)
(* Python None is the empty sequence <<>> and a present value v is <<v>>.  *)
(* A bbox is the tuple <<x0, y0, x1, y1>>.  Sizes and coordinates are      *)
(* integers; the margin fraction is the pair <<numerator, denominator>>.   *)
(***************************************************************************)
EXTENDS Integers, Sequences, FiniteSets

VARIABLES
    pc,              \* position of the running function
    \* ---- parse_pdf
    num_pages,       \* len(doc)
    page_num,        \* loop variable of parse_pdf
    nruns,           \* number of spans the page extractor has delivered
    line,            \* the spans of the current line delivered so far
    line_start,      \* len(page_blocks) when the current line began
    current,         \* the run merger's accumulator (None or a span)
    page_blocks,     \* spans of the current page
    all_blocks,      \* result list of parse_pdf
    \* ---- main, extract_title, extract_headings
    blocks,          \* blocks returned by parse_pdf (each with its identity)
    tables,          \* tables_bbox returned by parse_pdf
    title_block,     \* candidates[0] of extract_title (None or a block)
    title_text,
    title_ocr,
    filtered_blocks,
    candidates,
    headings,
    ocr_log,         \* the calls made to crop_and_ocr, in order
    output_json,
    \* ---- hierarchy pass of extract_headings
    hidx,            \* number of headings the pass has walked
    filtered,
    last_level,
    \* ---- remove_headers_footers
    margin,
    headers,
    footers

parseVars == <<num_pages, page_num, nruns, line, line_start, current,
               page_blocks, all_blocks>>
mainVars  == <<blocks, tables, title_block, title_text, title_ocr,
               filtered_blocks, candidates, ocr_log, output_json>>
hierVars  == <<hidx, filtered, last_level>>
hfVars    == <<margin, headers, footers>>
vars      == <<pc, parseVars, mainVars, headings, hierVars, hfVars>>

None == <<>>
Some(v) == <<v>>

----------------------------------------------------------------------------
(* Bounds of the model.                                                    *)

\* spans the page extractor delivers over one parse_pdf run
MaxRuns == 4
\* blocks of a document handed to main's pipeline
MaxBlocks == 5
\* headings handed to the hierarchy pass
MaxHeadings == 4
\* blocks handed to remove_headers_footers
MaxHFBlocks == 2

----------------------------------------------------------------------------
(* Python str and list helpers.                                            *)

Whitespace == {" ", "\t", "\n"}

RECURSIVE lstrip(_)
lstrip(t) == IF t # <<>> /\ Head(t) \in Whitespace THEN lstrip(Tail(t)) ELSE t

RECURSIVE rstrip(_)
rstrip(t) ==
    IF t # <<>> /\ t[Len(t)] \in Whitespace
    THEN rstrip(SubSeq(t, 1, Len(t) - 1))
    ELSE t

strip(t) == rstrip(lstrip(t))

endswith(t, suffix) ==
    /\ Len(t) >= Len(suffix)
    /\ SubSeq(t, Len(t) - Len(suffix) + 1, Len(t)) = suffix

UpperCase == <<"A","B","C","D","E","F","G","H","I","J","K","L","M",
               "N","O","P","Q","R","S","T","U","V","W","X","Y","Z">>
LowerCase == <<"a","b","c","d","e","f","g","h","i","j","k","l","m",
               "n","o","p","q","r","s","t","u","v","w","x","y","z">>

lower(t) ==
    [i \in 1..Len(t) |->
        IF \E k \in 1..Len(UpperCase) : UpperCase[k] = t[i]
        THEN LowerCase[CHOOSE k \in 1..Len(UpperCase) : UpperCase[k] = t[i]]
        ELSE t[i]]

\* Python's  word in text
contains(word, t) ==
    \E i \in 1..(Len(t) - Len(word) + 1) : SubSeq(t, i, i + Len(word) - 1) = word

MinOf(S) == CHOOSE m \in S : \A x \in S : m <= x
MaxOf(S) == CHOOSE m \in S : \A x \in S : m >= x

\* Python's order of two tuples of numbers of one length
RECURSIVE TupleLess(_, _)
TupleLess(a, b) ==
    /\ a # <<>>
    /\ \/ Head(a) < Head(b)
       \/ Head(a) = Head(b) /\ TupleLess(Tail(a), Tail(b))

\* Python's stable sort of s by the keys key[i] of its elements: s[i] goes
\* after every element of smaller key, and after every element of equal key
\* that stood before it.
StableSort(s, key) ==
    LET n == Len(s)
        pos(i) == 1 + Cardinality({j \in 1..n :
                        \/ TupleLess(key[j], key[i])
                        \/ (key[j] = key[i] /\ j < i)})
    IN  [p \in 1..n |-> s[CHOOSE i \in 1..n : pos(i) = p]]

----------------------------------------------------------------------------
(* Geometry.                                                               *)

merge_bboxes(bboxes) ==
    LET I == 1..Len(bboxes) IN
    << MinOf({bboxes[i][1] : i \in I}), MinOf({bboxes[i][2] : i \in I}),
       MaxOf({bboxes[i][3] : i \in I}), MaxOf({bboxes[i][4] : i \in I}) >>

bbox_intersect(b1, b2) ==
    ~(b1[3] < b2[1] \/ b2[3] < b1[1] \/ b1[4] < b2[2] \/ b2[4] < b1[2])

bbox_in_any(bbox, bbox_list) ==
    \E i \in 1..Len(bbox_list) : bbox_intersect(bbox, bbox_list[i])

\* page.rect.height and page.rect.width of every page
PageHeight == 100
PageWidth == 100

----------------------------------------------------------------------------
(* Block merger.                                                           *)

SameStyle(a, b) ==
    /\ a.font = b.font
    /\ a.size = b.size
    /\ a.flags = b.flags

\* slip: the else branch flushes but forgets  current = block.copy()
RECURSIVE MergeLoopKeepsCurrent(_, _, _)
MergeLoopKeepsCurrent(rest, cur, merged) ==
    IF rest = <<>> THEN Append(merged, cur)
    ELSE LET block == Head(rest) IN
         IF block.page = cur.page /\ SameStyle(block, cur)
         THEN MergeLoopKeepsCurrent(Tail(rest),
                        [cur EXCEPT !.text = @ \o <<" ">> \o block.text,
                                    !.bbox = merge_bboxes(<<@, block.bbox>>)],
                        merged)
         ELSE MergeLoopKeepsCurrent(Tail(rest), cur, Append(merged, cur))

RECURSIVE MergeLoop(_, _, _)
MergeLoop(rest, cur, merged) ==
    IF rest = <<>> THEN Append(merged, cur)
    ELSE LET block == Head(rest) IN
         IF block.page = cur.page /\ SameStyle(block, cur)
         THEN MergeLoop(Tail(rest),
                        [cur EXCEPT !.text = @ \o <<" ">> \o block.text,
                                    !.bbox = merge_bboxes(<<@, block.bbox>>)],
                        merged)
         ELSE MergeLoop(Tail(rest), block, Append(merged, cur))

merge_consecutive_blocks(bs) ==
    IF bs = <<>> THEN <<>> ELSE MergeLoop(Tail(bs), bs[1], <<>>)

\* sorted(page_blocks, key=lambda b: b['bbox'][1])
SortByTop(bs) == StableSort(bs, [i \in 1..Len(bs) |-> <<bs[i].bbox[2]>>])


----------------------------------------------------------------------------
(* parse_pdf: the run merger over the spans of each line, then the block   *)
(* merger over each page.  The page extractor (page.get_text) delivers the *)
(* spans one at a time.                                                    *)

\* the spans the page extractor may deliver
RunPool ==
    { [text |-> <<"A","l","p","h","a">>, font |-> "Helv", size |-> 12,
       flags |-> 0, bbox |-> <<0, 0, 5, 2>>],
      [text |-> <<" ","b","e","t","a"," ">>, font |-> "Helv", size |-> 12,
       flags |-> 0, bbox |-> <<5, 1, 9, 3>>],
      [text |-> <<" "," ">>, font |-> "Helv", size |-> 10,
       flags |-> 0, bbox |-> <<9, 0, 10, 2>>],
      [text |-> <<"G","a","m","m","a">>, font |-> "Helv", size |-> 10,
       flags |-> 0, bbox |-> <<0, 5, 4, 7>>],
      [text |-> <<"d","e","l","t","a">>, font |-> "Helv", size |-> 12,
       flags |-> 0, bbox |-> <<2, 4, 6, 8>>] }

PageCounts == {0, 1, 2}

StartSpan(text, span) ==
    [text |-> text, font |-> span.font, size |-> span.size,
     flags |-> span.flags, bboxes |-> <<span.bbox>>]

\* slip: the texts are joined without the space
ExtendSpanNoSpace(cur, text, bbox) ==
    [cur EXCEPT !.text = @ \o text, !.bboxes = Append(@, bbox)]

ExtendSpan(cur, text, bbox) ==
    [cur EXCEPT !.text = @ \o <<" ">> \o text, !.bboxes = Append(@, bbox)]

FlushSpan(cur, page) ==
    [text |-> cur.text, font |-> cur.font, size |-> cur.size,
     flags |-> cur.flags, bbox |-> merge_bboxes(cur.bboxes), page |-> page,
     page_height |-> PageHeight, page_width |-> PageWidth]

ParseIdle ==
    /\ num_pages = 0
    /\ page_num = 0
    /\ nruns = 0
    /\ line = <<>>
    /\ line_start = 0
    /\ current = None
    /\ page_blocks = <<>>
    /\ all_blocks = <<>>

MainIdle ==
    /\ blocks = <<>>
    /\ tables = <<>>
    /\ title_block = None
    /\ title_text = <<>>
    /\ title_ocr = <<>>
    /\ filtered_blocks = <<>>
    /\ candidates = <<>>
    /\ ocr_log = <<>>
    /\ output_json = None

HierIdle ==
    /\ hidx = 0
    /\ filtered = <<>>
    /\ last_level = None

HFIdle ==
    /\ margin = <<0, 1>>
    /\ headers = {}
    /\ footers = {}

InitParse ==
    /\ pc = "pages"
    /\ num_pages \in PageCounts
    /\ page_num = 0
    /\ nruns = 0
    /\ line = <<>>
    /\ line_start = 0
    /\ current = None
    /\ page_blocks = <<>>
    /\ all_blocks = <<>>
    /\ MainIdle /\ headings = <<>> /\ HierIdle /\ HFIdle

notParse == <<mainVars, headings, hierVars, hfVars>>

BeginPage ==
    /\ pc = "pages"
    /\ page_num < num_pages
    /\ page_blocks' = <<>>
    /\ line' = <<>>
    /\ line_start' = 0
    /\ current' = None
    /\ pc' = "lines"
    /\ UNCHANGED <<num_pages, page_num, nruns, all_blocks, notParse>>

BeginLine ==
    /\ pc = "lines"
    /\ current' = None
    /\ line' = <<>>
    /\ line_start' = Len(page_blocks)
    /\ pc' = "spans"
    /\ UNCHANGED <<num_pages, page_num, nruns, page_blocks, all_blocks, notParse>>

ReadSpan(span) ==
    /\ pc = "spans"
    /\ nruns < MaxRuns
    /\ nruns' = nruns + 1
    /\ line' = Append(line, span)
    /\ LET text == strip(span.text) IN
       \/ /\ text = <<>>
          /\ UNCHANGED <<current, page_blocks>>
       \/ /\ text # <<>>
          /\ current = None
          /\ current' = Some(StartSpan(text, span))
          /\ UNCHANGED page_blocks
       \/ /\ text # <<>>
          /\ current # None
          /\ SameStyle(span, current[1])
          /\ current' = Some(ExtendSpan(current[1], text, span.bbox))
          /\ UNCHANGED page_blocks
       \/ /\ text # <<>>
          /\ current # None
          /\ ~SameStyle(span, current[1])
          /\ page_blocks' = Append(page_blocks, FlushSpan(current[1], page_num))
          /\ current' = Some(StartSpan(text, span))
    /\ UNCHANGED <<pc, num_pages, page_num, line_start, all_blocks, notParse>>

EndLine ==
    /\ pc = "spans"
    /\ \/ /\ current # None
          /\ page_blocks' = Append(page_blocks, FlushSpan(current[1], page_num))
       \/ /\ current = None
          /\ UNCHANGED page_blocks
    /\ pc' = "lines"
    /\ UNCHANGED <<num_pages, page_num, nruns, line, line_start, current,
                   all_blocks, notParse>>

EndPage ==
    /\ pc = "lines"
    /\ page_blocks' = merge_consecutive_blocks(SortByTop(page_blocks))
    /\ all_blocks' = all_blocks \o page_blocks'
    /\ page_num' = page_num + 1
    /\ pc' = "pages"
    /\ UNCHANGED <<num_pages, nruns, line, line_start, current, notParse>>

ParseReturn ==
    /\ pc = "pages"
    /\ page_num = num_pages
    /\ pc' = "parsed"
    /\ UNCHANGED <<parseVars, notParse>>

NextParse ==
    \/ BeginPage
    \/ BeginLine
    \/ \E span \in RunPool : ReadSpan(span)
    \/ EndLine
    \/ EndPage
    \/ ParseReturn

SpecParse == InitParse /\ [][NextParse]_vars

\* What parse_pdf returns: pages in order, each page top to bottom, stripped
\* non-empty text, and no two neighbours of one page in the same style.
ParseOutput(bs) ==
    /\ \A i \in 1..Len(bs) : bs[i].text # <<>> /\ strip(bs[i].text) = bs[i].text
    /\ \A i \in 1..(Len(bs) - 1) :
          \/ bs[i].page < bs[i+1].page
          \/ /\ bs[i].page = bs[i+1].page
             /\ bs[i].bbox[2] <= bs[i+1].bbox[2]
             /\ ~SameStyle(bs[i], bs[i+1])

ParseOutputHolds == pc = "parsed" => ParseOutput(all_blocks)

----------------------------------------------------------------------------
(* Run merger and block merger: properties.                                *)

\* the spans of the current line that the run merger keeps
LineKept == SelectSeq(line, LAMBDA r : strip(r.text) # <<>>)

\* what the current line has added to page_blocks
LineEmitted == SubSeq(page_blocks, line_start + 1, Len(page_blocks))

RECURSIVE JoinSpace(_)
JoinSpace(ts) ==
    IF Len(ts) = 1 THEN ts[1] ELSE ts[1] \o <<" ">> \o JoinSpace(Tail(ts))

IsEnvelope(box, boxes) ==
    /\ \A i \in 1..Len(boxes) :
          /\ box[1] <= boxes[i][1] /\ box[2] <= boxes[i][2]
          /\ box[3] >= boxes[i][3] /\ box[4] >= boxes[i][4]
    /\ \A k \in 1..4 : \E i \in 1..Len(boxes) : box[k] = boxes[i][k]

\* C10: when a line ends and the runs it kept (those with non-empty trimmed
\* text, at least one) all share (font, size, flags), the line has emitted
\* exactly one span: its text is the single-space join of the trimmed run
\* texts in encounter order, its bbox the min/max envelope of their boxes.
C10_RunMergerOneSpan ==
    (/\ pc = "lines"
     /\ LineKept # <<>>
     /\ \A i \in 1..Len(LineKept) : SameStyle(LineKept[i], LineKept[1]))
    => /\ Len(LineEmitted) = 1
       /\ LineEmitted[1].text =
              JoinSpace([i \in 1..Len(LineKept) |-> strip(LineKept[i].text)])
       /\ IsEnvelope(LineEmitted[1].bbox,
                     [i \in 1..Len(LineKept) |-> LineKept[i].bbox])
       /\ SameStyle(LineEmitted[1], LineKept[1])

\* a line of three runs, one of them blank between two of one style, has
\* ended in one span
C10_Witness ==
    /\ pc = "lines"
    /\ Len(line) = 3
    /\ strip(line[2].text) = <<>>
    /\ Len(LineKept) = 2
    /\ LineKept[1].bbox # LineKept[2].bbox
    /\ SameStyle(LineKept[1], LineKept[2])
    /\ ~SameStyle(line[2], line[1])
    /\ Len(LineEmitted) = 1

----------------------------------------------------------------------------
(* Noise filter.                                                           *)

\* margin=0.1 of main's call
DefaultMargin == <<1, 10>>

\* y1 <= height * margin, with margin = m[1] / m[2]
IsHeader(b, m) == b.bbox[4] * m[2] <= b.page_height * m[1]

\* y0 >= height * (1 - margin)
IsFooter(b, m) == b.bbox[2] * m[2] >= b.page_height * (m[2] - m[1])

\* slip: both comparisons strict
remove_headers_footers_strict(bs, m) ==
    LET I == 1..Len(bs)
        hdr(b) == b.bbox[4] * m[2] < b.page_height * m[1]
        ftr(b) == b.bbox[2] * m[2] > b.page_height * (m[2] - m[1])
    IN  << {bs[i].id : i \in {k \in I : hdr(bs[k])}},
           {bs[i].id : i \in {k \in I : ~hdr(bs[k]) /\ ftr(bs[k])}} >>

\* the pair (headers, footers) of block identities
remove_headers_footers(bs, m) ==
    LET I == 1..Len(bs) IN
    << {bs[i].id : i \in {k \in I : IsHeader(bs[k], m)}},
       {bs[i].id : i \in {k \in I : ~IsHeader(bs[k], m) /\ IsFooter(bs[k], m)}} >>

\* get_tables_bboxes registers an empty list for every page of the document
get_tables_bboxes(pages) == [p \in pages |-> <<>>]

block_in_tables(page, bbox, tables_bbox) ==
    IF page \in DOMAIN tables_bbox
    THEN bbox_in_any(bbox, tables_bbox[page])
    ELSE FALSE

FilterBlocks(bs, combined, tables_bbox) ==
    SelectSeq(bs, LAMBDA b : /\ b.id \notin combined
                             /\ ~block_in_tables(b.page, b.bbox, tables_bbox))

----------------------------------------------------------------------------
(* OCR collaborator.                                                       *)

\* what pytesseract.image_to_string may read under the box of block b:
\* nothing, the text itself, or something else
OcrReadings(b) ==
    { <<"\n">>, b.text \o <<"\n">>, <<"0","C","R","\n">> }

\* an outcome of crop_and_ocr: the stripped reading, or an exception
OcrOutcomes(b) ==
    {[ok |-> TRUE, text |-> strip(r)] : r \in OcrReadings(b)}
        \cup {[ok |-> FALSE, text |-> <<>>]}

OcrCall(b, o) == [id |-> b.id, ok |-> o.ok, text |-> o.text]

----------------------------------------------------------------------------
(* Title selector.                                                         *)

TitleMinLen == 5

Blacklist == { <<"p","a","g","e">>, <<"d","r","a","f","t">>,
               <<"c","o","n","f","i","d","e","n","t","i","a","l">> }

IsTitleCandidate(b) ==
    /\ b.page \in {0, 1}
    /\ Len(b.text) > TitleMinLen
    /\ ~\E word \in Blacklist : contains(word, lower(b.text))

\* slip: the page comes first in the key
TitleKeyPageFirst(b) == <<b.page, -b.size, b.bbox[2]>>

\* the sort key of line 170
TitleKey(b) == <<-b.size, b.page, b.bbox[2]>>

\* candidates[0] after the sort, or None
SelectTitleBlock(bs) ==
    LET cands == SelectSeq(bs, IsTitleCandidate) IN
    IF cands = <<>> THEN None
    ELSE Some(StableSort(cands, [i \in 1..Len(cands) |-> TitleKey(cands[i])])[1])

----------------------------------------------------------------------------
(* Heading classifier.                                                     *)

HeadingMinLen == 3
HeadingMaxLen == 150

ends_with_single_dot(text) ==
    LET t == strip(text) IN
    IF endswith(t, <<".">>) /\ ~endswith(t, <<".", ".", ".">>)
    THEN IF Len(t) >= 2 THEN t[Len(t) - 1] # "." ELSE TRUE
    ELSE FALSE

Digits == <<"0","1","2","3","4","5","6","7","8","9">>

\* Python's str(n) for n >= 0
RECURSIVE str(_)
str(n) ==
    IF n < 10 THEN <<Digits[n + 1]>>
    ELSE str(n \div 10) \o <<Digits[(n % 10) + 1]>>

IsDigit(c) == \E d \in 1..10 : Digits[d] = c

DigitValue(c) == (CHOOSE d \in 1..10 : Digits[d] = c) - 1

RECURSIVE DecimalValue(_)
DecimalValue(t) ==
    IF t = <<>> THEN 0
    ELSE 10 * DecimalValue(SubSeq(t, 1, Len(t) - 1)) + DigitValue(t[Len(t)])

\* int(level_str[1:]) of a decimal numeral, None when int() raises
heading_level_number(level_str) ==
    IF level_str # <<>> /\ level_str[1] \in {"H", "h"}
    THEN LET t == Tail(level_str) IN
         IF t # <<>> /\ \A i \in 1..Len(t) : IsDigit(t[i])
         THEN Some(DecimalValue(t))
         ELSE None
    ELSE None

\* size -> "H<rank>", rank 1 for the largest of the distinct sizes
cluster_font_sizes(cands) ==
    LET sizes == {cands[i].size : i \in 1..Len(cands)} IN
    [sz \in sizes |->
        <<"H">> \o str(Cardinality({x \in sizes : x > sz}) + 1)]

RECURSIVE SumSizes(_)
SumSizes(bs) == IF bs = <<>> THEN 0 ELSE Head(bs).size + SumSizes(Tail(bs))

\* b["size"] < np.mean(font_sizes) + 1.5, over the blocks bs
BelowThreshold(b, bs) ==
    2 * Len(bs) * b.size < 2 * SumSizes(bs) + 3 * Len(bs)

\* slip: the title's text is not excluded
IsHeadingCandidateWithTitle(bs, idx, title) ==
    LET b == bs[idx]
        txt == strip(b.text)
    IN  /\ idx # Len(bs)
        /\ txt # <<>>
        /\ ~(Len(txt) < HeadingMinLen \/ Len(txt) > HeadingMaxLen)
        /\ ~ends_with_single_dot(txt)
        /\ ~BelowThreshold(b, bs)

IsHeadingCandidate(bs, idx, title) ==
    LET b == bs[idx]
        txt == strip(b.text)
    IN  /\ idx # Len(bs)
        /\ ~(txt = <<>> \/ txt = title)
        /\ ~(Len(txt) < HeadingMinLen \/ Len(txt) > HeadingMaxLen)
        /\ ~ends_with_single_dot(txt)
        /\ ~BelowThreshold(b, bs)

RECURSIVE CandidatesFrom(_, _, _)
CandidatesFrom(bs, idx, title) ==
    IF idx > Len(bs) THEN <<>>
    ELSE (IF IsHeadingCandidate(bs, idx, title) THEN <<bs[idx]>> ELSE <<>>)
            \o CandidatesFrom(bs, idx + 1, title)

HeadingCandidates(bs, title) == CandidatesFrom(bs, 1, title)

\* the heading built for candidate c; id is the identity of the Block it is
\* built from (a history field: the source's dict has no such key)
MakeHeading(c, cands, ocr_txt) ==
    [level |-> cluster_font_sizes(cands)[c.size], text |-> c.text,
     page |-> c.page, ocr_text |-> ocr_txt, id |-> c.id]

\* next(c for c in candidates if c["text"] == h["text"] and c["page"] == h["page"])
FirstMatch(h, cands) ==
    cands[MinOf({i \in 1..Len(cands) :
                    cands[i].text = h.text /\ cands[i].page = h.page})]

\* the sort key of lines 240-241
HeadingKey(h, cands) == <<h.page, FirstMatch(h, cands).bbox[2]>>

SortHeadings(hs, cands) ==
    StableSort(hs, [i \in 1..Len(hs) |-> HeadingKey(hs[i], cands)])

\* slip: a heading is accepted only when it does not deepen the outline
HierarchyStepNoDeepen(h, filt, last) ==
    LET lvl == heading_level_number(h.level) IN
    IF lvl = None THEN <<Append(filt, h), last>>
    ELSE IF last = None \/ lvl[1] <= last[1]
         THEN <<Append(filt, h), lvl>>
         ELSE <<filt, last>>

\* one iteration of the hierarchy loop: the new (filtered, last_level)
HierarchyStepResult(h, filt, last) ==
    LET lvl == heading_level_number(h.level) IN
    IF lvl = None THEN <<Append(filt, h), last>>
    ELSE IF last = None \/ lvl[1] <= last[1] + 1
         THEN <<Append(filt, h), lvl>>
         ELSE <<filt, last>>

\* slip: the page is written as it is stored, 0-based
OutlineEntryZeroBased(h) ==
    [level |-> h.level,
     text |-> IF h.ocr_text # <<>> THEN h.ocr_text ELSE h.text,
     page |-> h.page]

OutlineEntry(h) ==
    [level |-> h.level,
     text |-> IF h.ocr_text # <<>> THEN h.ocr_text ELSE h.text,
     page |-> h.page + 1]

----------------------------------------------------------------------------
(* main(): the documents parse_pdf may hand over, and the pipeline.        *)

ReportTitle == <<"R","e","p","o","r","t"," ","T","i","t","l","e">>
Introduction == <<"1","."," ","I","n","t","r","o","d","u","c","t","i","o","n">>
BodyText == <<"B","o","d","y"," ","t","e","x","t"," ","h","e","r","e",".">>
Overview == <<"O","v","e","r","v","i","e","w">>

Blk(text, size, flags, page, y0, y1) ==
    [text |-> text, font |-> "Helv", size |-> size, flags |-> flags,
     bbox |-> <<10, y0, 90, y1>>, page |-> page,
     page_height |-> PageHeight, page_width |-> PageWidth]

\* the blocks a document is made of, in page and top-edge order
Pool ==
    << Blk(<<"C","o","m","p","a","n","y"," ","N","a","m","e">>, 18, 16, 0, 2, 8),
       Blk(<<"N","o","t","e",".">>, 10, 0, 0, 12, 18),
       Blk(ReportTitle, 24, 0, 0, 20, 30),
       Blk(BodyText, 10, 0, 0, 40, 60),
       Blk(Introduction, 16, 0, 1, 20, 30),
       Blk(BodyText, 10, 0, 1, 40, 60),
       Blk(<<"A","p","p","e","n","d","i","x"," ","A",".">>, 24, 0, 1, 62, 70),
       Blk(<<"P","a","g","e"," ","2">>, 10, 2, 1, 92, 98),
       Blk(Overview, 18, 0, 2, 12, 16),
       Blk(<<"D","e","t","a","i","l","s">>, 18, 16, 2, 17, 19),
       Blk(Overview, 18, 0, 2, 32, 38),
       Blk(BodyText, 10, 0, 2, 40, 60) >>

DocPages == {0, 1, 2}

\* the blocks of Pool at the positions S, each given its identity
DocOf(S) ==
    LET nth(k) == CHOOSE i \in S : Cardinality({j \in S : j < i}) = k - 1 IN
    [k \in 1..Cardinality(S) |->
        [id |-> k, text |-> Pool[nth(k)].text, font |-> Pool[nth(k)].font,
         size |-> Pool[nth(k)].size, flags |-> Pool[nth(k)].flags,
         bbox |-> Pool[nth(k)].bbox, page |-> Pool[nth(k)].page,
         page_height |-> Pool[nth(k)].page_height,
         page_width |-> Pool[nth(k)].page_width]]

Docs ==
    {d \in {DocOf(S) : S \in {T \in SUBSET (1..Len(Pool)) :
                                    Cardinality(T) <= MaxBlocks}} :
        ParseOutput(d)}

Init ==
    /\ pc = "title"
    /\ blocks \in Docs
    /\ tables = get_tables_bboxes(DocPages)
    /\ title_block = None
    /\ title_text = <<>>
    /\ title_ocr = <<>>
    /\ filtered_blocks = <<>>
    /\ candidates = <<>>
    /\ headings = <<>>
    /\ ocr_log = <<>>
    /\ output_json = None
    /\ margin = DefaultMargin
    /\ headers = {}
    /\ footers = {}
    /\ ParseIdle /\ HierIdle

\* main line 265: extract_title on the blocks parse_pdf returned
ExtractTitle ==
    /\ pc = "title"
    /\ LET tb == SelectTitleBlock(blocks) IN
       IF tb = None
       THEN /\ title_block' = None
            /\ title_text' = <<>>
            /\ title_ocr' = <<>>
            /\ pc' = "filter"
            /\ UNCHANGED ocr_log
       ELSE \E o \in OcrOutcomes(tb[1]) :
            /\ title_block' = tb
            /\ ocr_log' = Append(ocr_log, OcrCall(tb[1], o))
            /\ IF o.ok
               THEN /\ title_text' = tb[1].text
                    /\ title_ocr' = o.text
                    /\ pc' = "filter"
               ELSE /\ pc' = "crashed"
                    /\ UNCHANGED <<title_text, title_ocr>>
    /\ UNCHANGED <<parseVars, blocks, tables, filtered_blocks, candidates,
                   output_json, headings, hierVars, hfVars>>

\* main lines 269-275
FilterNoise ==
    /\ pc = "filter"
    /\ LET hf == remove_headers_footers(blocks, margin) IN
       /\ headers' = hf[1]
       /\ footers' = hf[2]
       /\ filtered_blocks' = FilterBlocks(blocks, hf[1] \cup hf[2], tables)
    /\ pc' = "headings"
    /\ UNCHANGED <<parseVars, blocks, tables, title_block, title_text,
                   title_ocr, candidates, ocr_log, output_json, headings,
                   hierVars, margin>>

\* extract_headings lines 198-222
SelectCandidates ==
    /\ pc = "headings"
    /\ candidates' = HeadingCandidates(filtered_blocks, title_text)
    /\ headings' = <<>>
    /\ pc' = IF candidates' = <<>> THEN "assemble" ELSE "ocr"
    /\ UNCHANGED <<parseVars, blocks, tables, title_block, title_text,
                   title_ocr, filtered_blocks, ocr_log, output_json,
                   hierVars, hfVars>>

\* extract_headings lines 225-234, one candidate
OcrCandidate ==
    /\ pc = "ocr"
    /\ Len(headings) < Len(candidates)
    /\ LET c == candidates[Len(headings) + 1] IN
       \E o \in OcrOutcomes(c) :
          /\ ocr_log' = Append(ocr_log, OcrCall(c, o))
          /\ IF o.ok
             THEN /\ headings' = Append(headings, MakeHeading(c, candidates, o.text))
                  /\ pc' = "ocr"
             ELSE /\ pc' = "crashed"
                  /\ UNCHANGED headings
    /\ UNCHANGED <<parseVars, blocks, tables, title_block, title_text,
                   title_ocr, filtered_blocks, candidates, output_json,
                   hierVars, hfVars>>

\* extract_headings lines 236-243
SortCandidates ==
    /\ pc = "ocr"
    /\ Len(headings) = Len(candidates)
    /\ headings' = SortHeadings(headings, candidates)
    /\ hidx' = 0
    /\ filtered' = <<>>
    /\ last_level' = None
    /\ pc' = "hier"
    /\ UNCHANGED <<parseVars, mainVars, hfVars>>

\* extract_headings lines 244-251, one heading
HierarchyStep ==
    /\ pc = "hier"
    /\ hidx < Len(headings)
    /\ LET r == HierarchyStepResult(headings[hidx + 1], filtered, last_level) IN
       /\ filtered' = r[1]
       /\ last_level' = r[2]
    /\ hidx' = hidx + 1
    /\ UNCHANGED <<pc, parseVars, mainVars, headings, hfVars>>

\* extract_headings line 252 and main line 279
HierarchyReturn ==
    /\ pc = "hier"
    /\ hidx = Len(headings)
    /\ headings' = filtered
    /\ pc' = "assemble"
    /\ UNCHANGED <<parseVars, mainVars, hierVars, hfVars>>

\* main lines 294-307
Assemble ==
    /\ pc = "assemble"
    /\ output_json' =
          Some([title |-> IF title_ocr # <<>> THEN title_ocr ELSE title_text,
                outline |-> [i \in 1..Len(headings) |-> OutlineEntry(headings[i])]])
    /\ pc' = "done"
    /\ UNCHANGED <<parseVars, blocks, tables, title_block, title_text,
                   title_ocr, filtered_blocks, candidates, ocr_log, headings,
                   hierVars, hfVars>>

Next ==
    \/ ExtractTitle
    \/ FilterNoise
    \/ SelectCandidates
    \/ OcrCandidate
    \/ SortCandidates
    \/ HierarchyStep
    \/ HierarchyReturn
    \/ Assemble

Spec == Init /\ [][Next]_vars

----------------------------------------------------------------------------
(* Pipeline: properties.                                                   *)

SeqToSet(q) == {q[i] : i \in 1..Len(q)}

\* the blocks that are neither header, footer nor inside a table region
Survivors ==
    LET hf == remove_headers_footers(blocks, DefaultMargin) IN
    SeqToSet(FilterBlocks(blocks, hf[1] \cup hf[2], tables))

\* C3: the selected title is empty or the text of a Block that survived the
\* noise filter.
C3_TitleFromFilteredBlocks ==
    pc # "title" =>
        \/ title_block = None /\ title_text = <<>>
        \/ /\ title_block # None
           /\ title_block[1] \in Survivors
           /\ title_text \in {<<>>, title_block[1].text}

OcrFailed == \E i \in 1..Len(ocr_log) : ~ocr_log[i].ok

\* C4: a failed OCR call does not abort the run: the pipeline goes on as if
\* the call had returned the empty string, and the output falls back to the
\* geometric text.
C4_OcrFailureNonFatal ==
    OcrFailed =>
        /\ pc # "crashed"
        /\ pc = "done" =>
              /\ output_json # None
              /\ (title_block # None
                    /\ \E i \in 1..Len(ocr_log) :
                          ocr_log[i].id = title_block[1].id /\ ~ocr_log[i].ok)
                  => output_json[1].title = title_block[1].text

OcrCount(id) == Cardinality({i \in 1..Len(ocr_log) : ocr_log[i].id = id})

SelectedIds ==
    (IF title_block = None THEN {} ELSE {title_block[1].id})
        \cup {candidates[i].id : i \in 1..Len(candidates)}

\* C5: over a run the OCR collaborator is called at most once per Block, and
\* only for the title block and the heading candidates.
C5_OcrOncePerSelectedBlock ==
    \A i \in 1..Len(ocr_log) :
        /\ OcrCount(ocr_log[i].id) = 1
        /\ ocr_log[i].id \in SelectedIds

\* a finished run with a title and two heading candidates: three calls, and
\* blocks that were never recognized
C5_Witness ==
    /\ pc = "done"
    /\ title_block # None
    /\ Len(candidates) = 2
    /\ Len(ocr_log) = 3
    /\ \E i \in 1..Len(filtered_blocks) : OcrCount(filtered_blocks[i].id) = 0

\* (page, top edge of the heading's own Block), compared as tuples
OwnKeyLeq(a, b) ==
    \/ a.page < b.page
    \/ a.page = b.page /\ blocks[a.id].bbox[2] <= blocks[b.id].bbox[2]

\* C8: the headings entering the hierarchy pass, and the headings returned,
\* are in reading order: by page, then by the top edge of their own Block.
C8_ReadingOrder ==
    pc \in {"hier", "assemble", "done"} =>
        \A i, j \in 1..Len(headings) : i < j => OwnKeyLeq(headings[i], headings[j])

TitleCandidateSet == {b \in SeqToSet(blocks) : IsTitleCandidate(b)}

\* C9: the title Block is a candidate of maximal size, among those of minimal
\* page, among those of minimal top edge; without candidates the title is
\* empty.
C9_TitleRanking ==
    pc # "title" =>
        IF TitleCandidateSet = {}
        THEN title_block = None /\ title_text = <<>> /\ title_ocr = <<>>
        ELSE /\ title_block # None
             /\ title_block[1] \in TitleCandidateSet
             /\ \A c \in TitleCandidateSet :
                   \/ title_block[1].size > c.size
                   \/ /\ title_block[1].size = c.size
                      /\ title_block[1].page < c.page
                   \/ /\ title_block[1].size = c.size
                      /\ title_block[1].page = c.page
                      /\ title_block[1].bbox[2] <= c.bbox[2]
             /\ pc # "crashed" => title_text = title_block[1].text

\* a size-18 candidate on page 0 and the chosen size-24 candidate on page 1
C9_Witness ==
    /\ pc = "filter"
    /\ title_block # None
    /\ title_block[1].size = 24
    /\ title_block[1].page = 1
    /\ \E c \in TitleCandidateSet : c.size = 18 /\ c.page = 0

\* the document of the end-to-end example: two pages, one size-24 block
\* "Report Title" on page 0, one size-16 block "1. Introduction" on page 1,
\* size-10 text on both pages and nothing else
IsReportDoc(bs) ==
    LET I == 1..Len(bs) IN
    /\ \A i \in I : bs[i].page \in {0, 1} /\ bs[i].size \in {10, 16, 24}
    /\ Cardinality({i \in I : bs[i].size = 24}) = 1
    /\ Cardinality({i \in I : bs[i].size = 16}) = 1
    /\ \A i \in I : bs[i].size = 24 => bs[i].text = ReportTitle /\ bs[i].page = 0
    /\ \A i \in I : bs[i].size = 16 => bs[i].text = Introduction /\ bs[i].page = 1
    /\ \A p \in {0, 1} : \E i \in I : bs[i].size = 10 /\ bs[i].page = p

IntroEntry == [level |-> <<"H", "1">>, text |-> Introduction, page |-> 2]

\* every OCR call returned, with nothing or with the block's own text
OcrFaithful ==
    \A i \in 1..Len(ocr_log) :
        /\ ocr_log[i].ok
        /\ ocr_log[i].text \in {<<>>, blocks[ocr_log[i].id].text}

\* C2 as stated: the example document always yields the title and the
\* one-entry outline.
C2_EndToEndAsStated ==
    (pc = "done" /\ IsReportDoc(blocks) /\ OcrFaithful)
    => output_json = Some([title |-> ReportTitle, outline |-> <<IntroEntry>>])

\* the heading block survives the noise filter, is not the last surviving
\* block, and 16 >= mean size of the surviving blocks + 1.5
IntroAdmitted ==
    LET n == Len(filtered_blocks) IN
    /\ \E i \in 1..(n - 1) : filtered_blocks[i].text = Introduction
    /\ 2 * n * 16 >= 2 * SumSizes(filtered_blocks) + 3 * n

\* C2 amended: the title is "Report Title"; the outline is the one entry when
\* the heading block is admitted, and empty otherwise.
C2_EndToEnd ==
    (pc = "done" /\ IsReportDoc(blocks) /\ OcrFaithful)
    => /\ output_json # None
       /\ output_json[1].title = ReportTitle
       /\ output_json[1].outline = IF IntroAdmitted THEN <<IntroEntry>> ELSE <<>>

\* the example document with three surviving size-10 blocks gives the outline
C2_Witness ==
    /\ pc = "done"
    /\ IsReportDoc(blocks)
    /\ OcrFaithful
    /\ Len(ocr_log) = 2
    /\ output_json = Some([title |-> ReportTitle, outline |-> <<IntroEntry>>])

----------------------------------------------------------------------------
(* The hierarchy pass on its own: every ordered list of up to MaxHeadings  *)
(* headings whose levels are those cluster_font_sizes can assign (with n   *)
(* distinct sizes, the labels H1..Hn, each used).                          *)

RankSeqs ==
    UNION {{q \in [1..len -> 1..len] :
                \E n \in 1..len : {q[i] : i \in 1..len} = 1..n}
           : len \in 1..MaxHeadings}

HeadingsOfRanks(q) ==
    [i \in 1..Len(q) |->
        [level |-> <<"H">> \o str(q[i]), text |-> <<"h">> \o str(i),
         page |-> 0, ocr_text |-> <<>>, id |-> i]]

InitHier ==
    /\ pc = "hier"
    /\ headings \in {HeadingsOfRanks(q) : q \in RankSeqs}
    /\ hidx = 0
    /\ filtered = <<>>
    /\ last_level = None
    /\ ParseIdle /\ MainIdle /\ HFIdle

NextHier ==
    \/ HierarchyStep
    \/ HierarchyReturn

SpecHier == InitHier /\ [][NextHier]_vars

\* the rank a label "H<digits>" was formatted from
RankOf(h) == CHOOSE n \in 1..(MaxHeadings + MaxBlocks) : h.level = <<"H">> \o str(n)

Ranks(hs) == [i \in 1..Len(hs) |-> RankOf(hs[i])]

HierarchyShape ==
    pc = "hier" =>
        /\ \A k \in 2..Len(filtered) :
              RankOf(filtered[k]) <= RankOf(filtered[k-1]) + 1
        /\ last_level = IF filtered = <<>> THEN None
                        ELSE Some(RankOf(filtered[Len(filtered)]))
        /\ (hidx = Len(headings) /\ Ranks(headings) = <<1, 2, 4, 3>>)
              => Ranks(filtered) = <<1, 2, 3>>

HierarchyDecision ==
    (pc = "hier" /\ hidx' = hidx + 1) =>
        LET h == headings[hidx + 1]
            L == RankOf(h)
        IN  IF last_level = None \/ L <= last_level[1] + 1
            THEN filtered' = Append(filtered, h) /\ last_level' = Some(L)
            ELSE filtered' = filtered /\ last_level' = last_level

\* C1: in the hierarchy pass a heading of level L is accepted iff no level was
\* accepted before or L <= last accepted level + 1; accepting sets the last
\* accepted level to L, rejecting drops the heading and keeps the level.  So
\* each accepted heading after the first has level <= its predecessor's + 1,
\* and the levels 1,2,4,3 give 1,2,3.
C1_HierarchyPass == [](HierarchyShape) /\ [][HierarchyDecision]_vars

\* the pass has walked levels 1,2,4,3 and kept 1,2,3
C1_Witness ==
    /\ pc = "hier"
    /\ hidx = Len(headings)
    /\ Ranks(headings) = <<1, 2, 4, 3>>
    /\ Ranks(filtered) = <<1, 2, 3>>

----------------------------------------------------------------------------
(* remove_headers_footers on its own, for every margin fraction of         *)
(* Margins.                                                                *)

Margins == { <<0, 10>>, <<1, 10>>, <<5, 10>>, <<9, 10>>, <<10, 10>> }

HFHeights == {10, 20}
HFEdges == {0, 1, 2, 10, 20}

HFBoxes ==
    {[bbox |-> <<0, y0, 10, y1>>, page_height |-> h] :
        y0 \in HFEdges, y1 \in HFEdges, h \in HFHeights}

HFBlockSeqs ==
    UNION {{q \in [1..len -> {b \in HFBoxes : /\ b.bbox[2] <= b.bbox[4]
                                              /\ b.bbox[4] <= b.page_height}] :
                TRUE}
           : len \in 1..MaxHFBlocks}

HFBlocksOf(q) ==
    [i \in 1..Len(q) |->
        [id |-> i, text |-> <<"x">>, font |-> "Helv", size |-> 10, flags |-> 0,
         bbox |-> q[i].bbox, page |-> 0, page_height |-> q[i].page_height,
         page_width |-> PageWidth]]

InitHF ==
    /\ pc = "hf"
    /\ blocks \in {HFBlocksOf(q) : q \in HFBlockSeqs}
    /\ margin \in Margins
    /\ headers = {}
    /\ footers = {}
    /\ tables = <<>>
    /\ title_block = None
    /\ title_text = <<>>
    /\ title_ocr = <<>>
    /\ filtered_blocks = <<>>
    /\ candidates = <<>>
    /\ ocr_log = <<>>
    /\ output_json = None
    /\ headings = <<>>
    /\ ParseIdle /\ HierIdle

RemoveHeadersFooters ==
    /\ pc = "hf"
    /\ LET hf == remove_headers_footers(blocks, margin) IN
       /\ headers' = hf[1]
       /\ footers' = hf[2]
    /\ pc' = "hf_done"
    /\ UNCHANGED <<parseVars, mainVars, headings, hierVars, margin>>

NextHF == RemoveHeadersFooters

SpecHF == InitHF /\ [][NextHF]_vars

\* C7: a Block whose bottom edge is exactly margin * height is a header, and
\* for a margin below 1 a Block whose top edge is the page height is a footer.
C7_HeaderFooterBoundary ==
    pc = "hf_done" =>
        \A i \in 1..Len(blocks) :
            LET b == blocks[i] IN
            /\ (b.bbox[4] * margin[2] = margin[1] * b.page_height)
                  => b.id \in headers
            /\ (b.bbox[2] = b.page_height /\ margin[1] < margin[2])
                  => b.id \in footers /\ b.id \notin headers

\* classified: one block with its bottom edge on the header boundary of a
\* margin strictly between 0 and 1, one block with its top edge at the bottom
\* of the page
C7_Witness ==
    /\ pc = "hf_done"
    /\ margin[1] > 0
    /\ margin[1] < margin[2]
    /\ \E i, j \in 1..Len(blocks) :
          /\ blocks[i].bbox[4] * margin[2] = margin[1] * blocks[i].page_height
          /\ blocks[i].id \in headers
          /\ blocks[j].bbox[2] = blocks[j].page_height
          /\ blocks[j].id \in footers

============================================================================
